---- MODULE Spec2Model ----
(***************************************************************************)
(* Model of src/main.rs of henrikhaus/multi_server: a UDP game server with *)
(* two threads.  The main thread receives datagrams and appends their      *)
(* commands to `commands`; a spawned thread runs tick() every 16 ms: it    *)
(* applies the queued commands to `players`, runs physics(), broadcasts    *)
(* one snapshot and clears the queue.                                      *)
(*                                                                         *)
(* Numbers.  The code uses f32.  Vertical quantities only ever take small  *)
(* integer values (GRAVITY 1.0, jump_force 10.0, bound 190.0), which f32   *)
(* holds exactly, so they are integers here.  Horizontal quantities are    *)
(* scaled by FRICTION = 0.8 each tick; they are exact rationals [n, d]     *)
(* here (0.8 = 4/5), so f32 rounding of the horizontal values is not       *)
(* modelled.                                                               *)
(***************************************************************************)
EXTENDS Integers, Sequences, FiniteSets, TLC

\* ------------------------------------------------------------- bounds
\* datagrams received in one run
MaxPackets == 2
\* commands received in one run, over all datagrams
MaxCommands == 2
\* ticks started; past this number a tick starts only to drain a non-empty queue
MaxTicks == 2

\* ---------------------------------------------------------- constants
GRAVITY == 1
FRICTION_NUM == 4
FRICTION_DEN == 5
SCREEN_HEIGHT == 200
SCREEN_WIDTH == 300
TICK_DURATION == 16
\* the margin `- 10.0` of the upper clamps
MARGIN == 10
\* Player::new: acc 1.0, jump_force 10.0
ACC == 1
JUMP_FORCE == 10

\* source addresses of datagrams
Addr == {"a1", "a2"}
\* schema_generated::PlayerCommand, as main.rs uses it: three variants are
\* dispatched, every other value falls to `_ => {}`
PlayerCommand == {"Move_right", "Move_left", "Jump", "None"}
\* schema_generated::Color; Player::new uses Color::Red
Color == {"Red"}

\* ---------------------------------------------------------- rationals
RECURSIVE GCD(_, _)
GCD(a, b) == IF b = 0 THEN a ELSE GCD(b, a % b)

Abs(a) == IF a < 0 THEN -a ELSE a

\* the rational n/d in lowest terms, d > 0
Rat(n, d) == LET g == GCD(Abs(n), d) IN [n |-> n \div g, d |-> d \div g]

FromInt(k) == [n |-> k, d |-> 1]

RAdd(a, b) ==
    LET g == GCD(a.d, b.d)
        l == (a.d \div g) * b.d
    IN  Rat(a.n * (l \div a.d) + b.n * (l \div b.d), l)

RSub(a, b) == RAdd(a, [n |-> -b.n, d |-> b.d])

\* a * num/den
RScale(a, num, den) == Rat(a.n * num, a.d * den)

\* a > k and a < k for an integer k
RGtInt(a, k) == a.n > k * a.d
RLtInt(a, k) == a.n < k * a.d

\* ------------------------------------------------------------- types
Vec2_zero == [x |-> FromInt(0), y |-> 0]

Player_new(ip) ==
    [ip |-> ip, pos |-> Vec2_zero, vel |-> Vec2_zero,
     acc |-> ACC, jump_force |-> JUMP_FORCE, color |-> "Red"]

\* -------------------------------------------------------------- state
VARIABLES
    players,      \* Mutex<Vec<Player>>: the vector
    commands,     \* Mutex<Vec<(SocketAddr, PlayerCommand)>>: the vector
    players_lock, \* holder of the players mutex: "none", "tick"
    commands_lock,\* holder of the commands mutex: "none", "tick", "main"
    tpc,          \* position of the tick thread
    i,            \* tick(): index of the `for (addr, cmd) in commands.iter()` loop
    j,            \* tick(): index of the `for p in players.iter()` send loop
    bytes,        \* tick(): builder.finished_data()
    sleep_time,   \* tick thread: TICK_DURATION.checked_sub(start.elapsed())
    elapsed,      \* tick thread: the value of start.elapsed(), once taken
    ipc,          \* position of the main thread (ingestion loop)
    buf,          \* main: the received datagram
    src_addr,     \* main: its source address
    k,            \* handle_packet(): index of the `for cmd in cmd_list` loop
    exit,         \* "running", or why the process ended
    ticks,        \* number of ticks started
    packets,      \* number of datagrams received
    drains,       \* history: number of ticks that took the commands lock
    enqueued,     \* history: every pushed entry, with `drains` at the push
    consumed,     \* history: every entry tick() iterated, with its tick
    pre,          \* history: `players` when the current tick took its locks
    sent,         \* history: the send_to attempts of the current tick
    hit           \* history: addresses of the players an x clamp has acted on

vars == <<players, commands, players_lock, commands_lock, tpc, i, j, bytes,
          sleep_time, ipc, buf, src_addr, k, exit, ticks, packets, drains,
          enqueued, consumed, pre, sent, elapsed, hit>>

tickVars == <<tpc, i, j, bytes, sleep_time, elapsed>>
mainVars == <<ipc, buf, src_addr, k>>

\* Option<T>: None is the empty sequence, Some(v) is <<v>>
None == <<>>
Some(v) == <<v>>

NoAddr == "none"

\* the datagrams recv_from can deliver: a buffer that does not verify as a
\* PlayerCommands table, a table without its commands vector, or a table
\* with a vector of up to n commands
RECURSIVE SeqsUpTo(_, _)
SeqsUpTo(S, n) ==
    IF n = 0 THEN {<<>>}
    ELSE LET shorter == SeqsUpTo(S, n - 1)
         IN  shorter \cup {Append(s, c) : s \in shorter, c \in S}

\* `verifies`: whether the buffer passes the flatbuffers verifier as a
\* PlayerCommands table; `commands`: the table's optional vector
Corrupt == [verifies |-> FALSE, commands |-> None]

Datagrams(n) ==
    {Corrupt} \cup {[verifies |-> TRUE, commands |-> None]}
              \cup {[verifies |-> TRUE, commands |-> Some(s)] :
                        s \in SeqsUpTo(PlayerCommand, n)}

\* flatbuffers root::<PlayerCommands>(packet): Err for a buffer that fails
\* verification, else the table
root(packet) ==
    IF packet.verifies
    THEN [ok |-> TRUE, commands |-> packet.commands]
    ELSE [ok |-> FALSE, commands |-> None]

alive == exit = "running"

\* handle_packet: the cmd_list of `if let Some(cmd_list) = ...commands()`
cmd_list == root(buf).commands[1]

Init ==
    /\ players = <<>>
    /\ commands = <<>>
    /\ players_lock = "none"
    /\ commands_lock = "none"
    /\ tpc = "start"
    /\ i = 0
    /\ j = 0
    /\ bytes = <<>>
    /\ sleep_time = None
    /\ ipc = "recv"
    /\ buf = Corrupt
    /\ src_addr = NoAddr
    /\ k = 0
    /\ exit = "running"
    /\ ticks = 0
    /\ packets = 0
    /\ drains = 0
    /\ enqueued = <<>>
    /\ consumed = <<>>
    /\ pre = <<>>
    /\ sent = <<>>
    /\ elapsed = None
    /\ hit = {}

\* ------------------------------------------------------------ helpers
\* get_player_by_ip that never finds a player
get_player_by_ip_none(ip, ps) == 0

\* get_player_by_ip: the index of the first player with that ip, 0 for None
get_player_by_ip(ip, ps) ==
    IF \E n \in 1..Len(ps) : ps[n].ip = ip
    THEN CHOOSE n \in 1..Len(ps) :
             /\ ps[n].ip = ip
             /\ \A m \in 1..(n - 1) : ps[m].ip # ip
    ELSE 0

\* handle_move_left with the sign of handle_move_right
handle_move_left_adds(player) ==
    [player EXCEPT !.vel.x = RAdd(@, FromInt(player.acc))]

handle_move_right(player) ==
    [player EXCEPT !.vel.x = RAdd(@, FromInt(player.acc))]

handle_move_left(player) ==
    [player EXCEPT !.vel.x = RSub(@, FromInt(player.acc))]

handle_jump(player) ==
    [player EXCEPT !.vel.y = @ - player.jump_force]

\* the `match cmd` of tick()
dispatch(player, cmd) ==
    CASE cmd = "Move_right" -> handle_move_right(player)
      [] cmd = "Move_left"  -> handle_move_left(player)
      [] cmd = "Jump"       -> handle_jump(player)
      [] OTHER              -> player

\* apply_command that also applies the joining command to the new player
apply_command_on_join(ps, addr, cmd) ==
    LET n == get_player_by_ip(addr, ps)
    IN  IF n # 0
        THEN [ps EXCEPT ![n] = dispatch(ps[n], cmd)]
        ELSE Append(ps, dispatch(Player_new(addr), cmd))

\* one iteration of `for (addr, cmd) in commands.iter()` in tick()
apply_command(ps, addr, cmd) ==
    LET n == get_player_by_ip(addr, ps)
    IN  IF n # 0
        THEN [ps EXCEPT ![n] = dispatch(ps[n], cmd)]
        ELSE Append(ps, Player_new(addr))

\* the four clamps of physics(), in the order of the code
clamp_y_high(p) ==
    IF p.pos.y > SCREEN_HEIGHT - MARGIN
    THEN [p EXCEPT !.pos.y = SCREEN_HEIGHT - MARGIN, !.vel.y = 0]
    ELSE p

\* clamp_y_low left out
clamp_y_low_missing(p) == p

clamp_y_low(p) ==
    IF p.pos.y < 0
    THEN [p EXCEPT !.pos.y = 0, !.vel.y = 0]
    ELSE p

clamp_x_high(p) ==
    IF RGtInt(p.pos.x, SCREEN_WIDTH - MARGIN)
    THEN [p EXCEPT !.pos.x = FromInt(SCREEN_WIDTH - MARGIN), !.vel.x = FromInt(0)]
    ELSE p

clamp_x_low(p) ==
    IF RLtInt(p.pos.x, 0)
    THEN [p EXCEPT !.pos.x = FromInt(0), !.vel.x = FromInt(0)]
    ELSE p

\* integrate with the velocity updated before the position
integrate_velocity_first(p) ==
    LET vx == RScale(p.vel.x, FRICTION_NUM, FRICTION_DEN)
        vy == p.vel.y + GRAVITY
    IN  [p EXCEPT !.pos.x = RAdd(p.pos.x, vx), !.pos.y = p.pos.y + vy,
                  !.vel.x = vx, !.vel.y = vy]

\* integrate without `player.vel.x *= FRICTION`
integrate_no_friction(p) ==
    [p EXCEPT !.pos.x = RAdd(p.pos.x, p.vel.x),
              !.pos.y = p.pos.y + p.vel.y,
              !.vel.y = p.vel.y + GRAVITY]

\* the first four statements of the loop body of physics()
integrate(p) ==
    [p EXCEPT !.pos.x = RAdd(p.pos.x, p.vel.x),
              !.pos.y = p.pos.y + p.vel.y,
              !.vel.x = RScale(p.vel.x, FRICTION_NUM, FRICTION_DEN),
              !.vel.y = p.vel.y + GRAVITY]

\* the loop body of physics()
physics_player(p) ==
    clamp_x_low(clamp_x_high(clamp_y_low(clamp_y_high(integrate(p)))))

physics(ps) == [n \in 1..Len(ps) |-> physics_player(ps[n])]

\* whether physics() takes one of its two x clamps for p
x_clamp_acts(p) ==
    \/ RGtInt(integrate(p).pos.x, SCREEN_WIDTH - MARGIN)
    \/ RLtInt(integrate(p).pos.x, 0)

\* the snapshot tick() builds: one SchemaPlayer {x, y, color} per player, in
\* the order of the vector
encode_snapshot(ps) ==
    [n \in 1..Len(ps) |->
        [x |-> ps[n].pos.x, y |-> ps[n].pos.y, color |-> ps[n].color]]

\* checked_sub that returns the absolute difference
checked_sub_abs(a, b) == Some(Abs(a - b))

\* Duration::checked_sub: None when the result would be negative
checked_sub(a, b) == IF a >= b THEN Some(a - b) ELSE None

\* values of start.elapsed() in ms: under, at and over the period
Elapsed == {1, TICK_DURATION, TICK_DURATION + 1}

\* ---------------------------------------------------- the tick thread
hist == <<drains, enqueued, consumed, pre, sent, hit>>

\* `let start = Instant::now();` at the top of the loop
TickStart ==
    /\ alive
    /\ tpc = "start"
    /\ ticks < MaxTicks \/ commands # <<>>
    /\ tpc' = "lock_players"
    /\ ticks' = ticks + 1
    /\ elapsed' = None
    /\ UNCHANGED <<players, commands, players_lock, commands_lock, i, j, bytes,
                   sleep_time, mainVars, exit, packets, hist>>

\* tick_players.lock().unwrap()
TickLockPlayers ==
    /\ alive
    /\ tpc = "lock_players"
    /\ players_lock = "none"
    /\ players_lock' = "tick"
    /\ tpc' = "lock_commands"
    /\ UNCHANGED <<players, commands, commands_lock, i, j, bytes, sleep_time, elapsed,
                   mainVars, exit, ticks, packets, hist>>

\* tick_commands.lock().unwrap(), and the entry into tick()
TickLockCommands ==
    /\ alive
    /\ tpc = "lock_commands"
    /\ commands_lock = "none"
    /\ commands_lock' = "tick"
    /\ tpc' = "apply"
    /\ i' = 1
    /\ drains' = drains + 1
    /\ pre' = players
    /\ sent' = <<>>
    /\ UNCHANGED <<players, commands, players_lock, j, bytes, sleep_time, elapsed,
                   mainVars, exit, ticks, packets, enqueued, consumed, hit>>

\* one iteration of the command loop of tick()
TickApply ==
    /\ alive
    /\ tpc = "apply"
    /\ i <= Len(commands)
    /\ players' = apply_command(players, commands[i].addr, commands[i].cmd)
    /\ consumed' = Append(consumed, [addr |-> commands[i].addr,
                                     cmd |-> commands[i].cmd, by |-> drains])
    /\ i' = i + 1
    /\ UNCHANGED <<commands, players_lock, commands_lock, tpc, j, bytes,
                   sleep_time, elapsed, mainVars, exit, ticks, packets, drains,
                   enqueued, pre, sent, hit>>

\* the end of the command loop, and physics(players)
TickPhysics ==
    /\ alive
    /\ tpc = "apply"
    /\ i > Len(commands)
    /\ players' = physics(players)
    /\ hit' = hit \cup {players[n].ip : n \in {m \in 1..Len(players) :
                                                  x_clamp_acts(players[m])}}
    /\ tpc' = "encode"
    /\ UNCHANGED <<commands, players_lock, commands_lock, i, j, bytes,
                   sleep_time, elapsed, mainVars, exit, ticks, packets, drains,
                   enqueued, consumed, pre, sent>>

\* TickEncode that builds the snapshot from the players as they were when
\* the tick started
TickEncodeStale ==
    /\ alive
    /\ tpc = "encode"
    /\ bytes' = encode_snapshot(pre)
    /\ j' = 1
    /\ tpc' = "send"
    /\ UNCHANGED <<players, commands, players_lock, commands_lock, i,
                   sleep_time, elapsed, mainVars, exit, ticks, packets, hist>>

\* the FlatBufferBuilder block: the snapshot is built once
TickEncode ==
    /\ alive
    /\ tpc = "encode"
    /\ bytes' = encode_snapshot(players)
    /\ j' = 1
    /\ tpc' = "send"
    /\ UNCHANGED <<players, commands, players_lock, commands_lock, i,
                   sleep_time, elapsed, mainVars, exit, ticks, packets, hist>>

\* TickSend that leaves the loop at the first Err (`send_to(..)?` or break)
TickSendStopsOnErr ==
    /\ alive
    /\ tpc = "send"
    /\ j <= Len(players)
    /\ \E ok \in BOOLEAN :
           /\ sent' = Append(sent, [to |-> players[j].ip, bytes |-> bytes, ok |-> ok])
           /\ j' = IF ok THEN j + 1 ELSE Len(players) + 1
    /\ UNCHANGED <<players, commands, players_lock, commands_lock, tpc, i,
                   bytes, sleep_time, elapsed, mainVars, exit, ticks, packets, drains,
                   enqueued, consumed, pre, hit>>

\* TickSend over `players.iter().skip(1)`: the first player gets nothing
TickSendSkipsFirst ==
    /\ alive
    /\ tpc = "send"
    /\ j <= Len(players)
    /\ \E ok \in BOOLEAN :
           sent' = IF j = 1 THEN sent
                   ELSE Append(sent, [to |-> players[j].ip, bytes |-> bytes, ok |-> ok])
    /\ j' = j + 1
    /\ UNCHANGED <<players, commands, players_lock, commands_lock, tpc, i,
                   bytes, sleep_time, elapsed, mainVars, exit, ticks, packets, drains,
                   enqueued, consumed, pre, hit>>

\* one iteration of the send loop: `let _ = socket.send_to(bytes, p.ip);`
\* the result, Ok or Err, is discarded
TickSend ==
    /\ alive
    /\ tpc = "send"
    /\ j <= Len(players)
    /\ \E ok \in BOOLEAN :
           sent' = Append(sent, [to |-> players[j].ip, bytes |-> bytes, ok |-> ok])
    /\ j' = j + 1
    /\ UNCHANGED <<players, commands, players_lock, commands_lock, tpc, i,
                   bytes, sleep_time, elapsed, mainVars, exit, ticks, packets, drains,
                   enqueued, consumed, pre, hit>>

\* TickClear without commands.clear()
TickClearKeepsQueue ==
    /\ alive
    /\ tpc = "send"
    /\ j > Len(players)
    /\ tpc' = "drop_players"
    /\ UNCHANGED <<players, commands, players_lock, commands_lock, i, j, bytes,
                   sleep_time, elapsed, mainVars, exit, ticks, packets, hist>>

\* the end of the send loop, and commands.clear()
TickClear ==
    /\ alive
    /\ tpc = "send"
    /\ j > Len(players)
    /\ commands' = <<>>
    /\ tpc' = "drop_players"
    /\ UNCHANGED <<players, players_lock, commands_lock, i, j, bytes,
                   sleep_time, elapsed, mainVars, exit, ticks, packets, hist>>

\* tick() has returned (its locals are gone); drop(players_guard)
TickDropPlayers ==
    /\ alive
    /\ tpc = "drop_players"
    /\ players_lock' = "none"
    /\ tpc' = "drop_commands"
    /\ i' = 0
    /\ j' = 0
    /\ bytes' = <<>>
    /\ pre' = <<>>
    /\ sent' = <<>>
    /\ UNCHANGED <<players, commands, commands_lock, sleep_time, elapsed, mainVars,
                   exit, ticks, packets, drains, enqueued, consumed, hit>>

\* drop(commands_guard), then sleep_time = TICK_DURATION.checked_sub(start.elapsed())
TickDropCommands ==
    /\ alive
    /\ tpc = "drop_commands"
    /\ commands_lock' = "none"
    /\ \E e \in Elapsed :
           /\ elapsed' = Some(e)
           /\ sleep_time' = checked_sub(TICK_DURATION, e)
           /\ tpc' = IF sleep_time' # None THEN "sleep" ELSE "start"
    /\ UNCHANGED <<players, commands, players_lock, i, j, bytes, mainVars,
                   exit, ticks, packets, hist>>

\* sleep(sleep_time) returns
TickSleep ==
    /\ alive
    /\ tpc = "sleep"
    /\ tpc' = "start"
    /\ sleep_time' = None
    /\ elapsed' = None
    /\ UNCHANGED <<players, commands, players_lock, commands_lock, i, j, bytes,
                   mainVars, exit, ticks, packets, hist>>

TickThread ==
    \/ TickStart
    \/ TickLockPlayers
    \/ TickLockCommands
    \/ TickApply
    \/ TickPhysics
    \/ TickEncode
    \/ TickSend
    \/ TickClear
    \/ TickDropPlayers
    \/ TickDropCommands
    \/ TickSleep

\* ---------------------------------------------------- the main thread
\* socket.recv_from(&mut buf) returns Ok((amt, src_addr))
Recv ==
    /\ alive
    /\ ipc = "recv"
    /\ packets < MaxPackets
    /\ \E d \in Datagrams(MaxCommands - Len(enqueued)), a \in Addr :
           /\ buf' = d
           /\ src_addr' = a
    /\ packets' = packets + 1
    /\ ipc' = "lock"
    /\ UNCHANGED <<players, commands, players_lock, commands_lock, tickVars,
                   k, exit, ticks, hist>>

\* socket.recv_from(&mut buf)? returns Err: main returns it, the process ends
RecvError ==
    /\ alive
    /\ ipc = "recv"
    /\ exit' = "recv_error"
    /\ UNCHANGED <<players, commands, players_lock, commands_lock, tickVars,
                   mainVars, ticks, packets, hist>>

\* MainLockCommands that does not wait for the tick thread to release
MainLockCommandsRacy ==
    /\ alive
    /\ ipc = "lock"
    /\ commands_lock' = "main"
    /\ ipc' = "handle"
    /\ UNCHANGED <<players, commands, players_lock, tickVars, buf, src_addr, k,
                   exit, ticks, packets, hist>>

\* commands.lock().unwrap()
MainLockCommands ==
    /\ alive
    /\ ipc = "lock"
    /\ commands_lock = "none"
    /\ commands_lock' = "main"
    /\ ipc' = "handle"
    /\ UNCHANGED <<players, commands, players_lock, tickVars, buf, src_addr, k,
                   exit, ticks, packets, hist>>

\* handle_packet up to its loop: root::<PlayerCommands>(packet).expect(..)
\* panics on Err; the panic unwinds the main thread and the process ends.
\* Otherwise `if let Some(cmd_list) = player_commands.commands()`.
HandlePacket ==
    /\ alive
    /\ ipc = "handle"
    /\ LET player_commands == root(buf)
       IN  IF ~player_commands.ok
           THEN /\ exit' = "panic"
                /\ UNCHANGED <<ipc, k>>
           ELSE /\ ipc' = IF player_commands.commands # None
                          THEN "push" ELSE "drop"
                /\ k' = 1
                /\ exit' = exit
    /\ UNCHANGED <<players, commands, players_lock, commands_lock, tickVars,
                   buf, src_addr, ticks, packets, hist>>

\* Push that assigns the queue instead of appending to it
PushReplaces ==
    /\ alive
    /\ ipc = "push"
    /\ k <= Len(cmd_list)
    /\ commands' = <<[addr |-> src_addr, cmd |-> cmd_list[k]]>>
    /\ enqueued' = Append(enqueued, [addr |-> src_addr, cmd |-> cmd_list[k],
                                     at |-> drains])
    /\ k' = k + 1
    /\ UNCHANGED <<players, players_lock, commands_lock, tickVars, ipc, buf,
                   src_addr, exit, ticks, packets, drains, consumed, pre, sent,
                   hit>>

\* one iteration of `for cmd in cmd_list`: commands.push((src_addr, cmd))
Push ==
    /\ alive
    /\ ipc = "push"
    /\ k <= Len(cmd_list)
    /\ commands' = Append(commands, [addr |-> src_addr, cmd |-> cmd_list[k]])
    /\ enqueued' = Append(enqueued, [addr |-> src_addr, cmd |-> cmd_list[k],
                                     at |-> drains])
    /\ k' = k + 1
    /\ UNCHANGED <<players, players_lock, commands_lock, tickVars, ipc, buf,
                   src_addr, exit, ticks, packets, drains, consumed, pre, sent,
                   hit>>

\* MainDropCommands that keeps the guard: the lock is not released
MainKeepsGuard ==
    /\ alive
    /\ \/ ipc = "drop"
       \/ ipc = "push" /\ k > Len(cmd_list)
    /\ ipc' = "recv"
    /\ buf' = Corrupt
    /\ src_addr' = NoAddr
    /\ k' = 0
    /\ UNCHANGED <<players, commands, players_lock, commands_lock, tickVars,
                   exit, ticks, packets, hist>>

\* the end of handle_packet and drop(commands_guard)
MainDropCommands ==
    /\ alive
    /\ \/ ipc = "drop"
       \/ ipc = "push" /\ k > Len(cmd_list)
    /\ commands_lock' = "none"
    /\ ipc' = "recv"
    /\ buf' = Corrupt
    /\ src_addr' = NoAddr
    /\ k' = 0
    /\ UNCHANGED <<players, commands, players_lock, tickVars, exit, ticks,
                   packets, hist>>

MainThread ==
    \/ Recv
    \/ RecvError
    \/ MainLockCommands
    \/ HandlePacket
    \/ Push
    \/ MainDropCommands

Next == TickThread \/ MainThread

Spec == Init /\ [][Next]_vars

\* ------------------------------------------------- a later start state
\* The clamps of physics() act at x = 290 and y = 190, which a player
\* reaches only after dozens of commands and ticks.  SpecWarm starts the
\* same program with player a1 resting in a corner of the world, a state
\* the program reaches from Init:
\*   (0, 190)   a player left alone falls 0, 1, 3, .., 190, 210 -> clamped,
\*              vel.y = 0;
\*   (290, 0)   a Jump in every tick keeps y clamped at 0 with vel.y = 0
\*              while Move_right commands carry x past 290 -> clamped,
\*              vel.x = 0, and it stays 0 with no further Move command.
\* Two opposite corners cover both boundaries of both axes.
Corners ==
    {[x |-> FromInt(0), y |-> SCREEN_HEIGHT - MARGIN],
     [x |-> FromInt(SCREEN_WIDTH - MARGIN), y |-> 0]}

InitWarm ==
    /\ \E c \in Corners : players = <<[Player_new("a1") EXCEPT !.pos = c]>>
    /\ commands = <<>>
    /\ players_lock = "none"
    /\ commands_lock = "none"
    /\ tpc = "start"
    /\ i = 0
    /\ j = 0
    /\ bytes = <<>>
    /\ sleep_time = None
    /\ ipc = "recv"
    /\ buf = Corrupt
    /\ src_addr = NoAddr
    /\ k = 0
    /\ exit = "running"
    /\ ticks = 0
    /\ packets = 0
    /\ drains = 0
    /\ enqueued = <<>>
    /\ consumed = <<>>
    /\ pre = <<>>
    /\ sent = <<>>
    /\ elapsed = None
    /\ hit = {}

SpecWarm == InitWarm /\ [][Next]_vars

\* SpecRest starts the same program with player a1 at position (0, 0) with
\* velocity (0, 0), a state the program reaches from Init two ticks after
\* a1 joined: the join tick leaves (0, 0) with vel.y = 1, and a Jump in the
\* next tick gives vel.y = -9, pos.y = -9 -> clamped to 0 with vel.y = 0.
InitRest ==
    /\ players = <<Player_new("a1")>>
    /\ commands = <<>>
    /\ players_lock = "none"
    /\ commands_lock = "none"
    /\ tpc = "start"
    /\ i = 0
    /\ j = 0
    /\ bytes = <<>>
    /\ sleep_time = None
    /\ ipc = "recv"
    /\ buf = Corrupt
    /\ src_addr = NoAddr
    /\ k = 0
    /\ exit = "running"
    /\ ticks = 0
    /\ packets = 0
    /\ drains = 0
    /\ enqueued = <<>>
    /\ consumed = <<>>
    /\ pre = <<>>
    /\ sent = <<>>
    /\ elapsed = None
    /\ hit = {}

SpecRest == InitRest /\ [][Next]_vars

\* The scheduler runs the tick thread whenever it can take a step, and the
\* main thread, once it holds the commands lock, runs handle_packet to its
\* end and releases.  (Receiving is up to the network: no fairness.)
LiveSpec ==
    /\ Init
    /\ [][Next]_vars
    /\ WF_vars(TickThread)
    /\ WF_vars(HandlePacket \/ Push \/ MainDropCommands)

\* ------------------------------------------------------------- claims
\* the (addr, cmd) pairs of a history
Pairs(h) == [n \in 1..Len(h) |-> [addr |-> h[n].addr, cmd |-> h[n].cmd]]

\* inside tick(): between taking the commands lock and tick()'s return
InTick == tpc \in {"apply", "encode", "send", "drop_players"}

\* after physics() of the current tick, with its batch still in `commands`
AfterPhysics == tpc \in {"encode", "send"}

\* the queue entries no tick has iterated yet
Pending == IF InTick THEN SubSeq(commands, i, Len(commands)) ELSE commands

\* the commands of address a in the current batch
BatchOf(a) == SelectSeq(commands, LAMBDA e : e.addr = a)

Known(a, ps) == \E n \in 1..Len(ps) : ps[n].ip = a

PlayersOf(a) == {n \in 1..Len(players) : players[n].ip = a}

\* a joined in the current tick
Joined(a) == AfterPhysics /\ BatchOf(a) # <<>> /\ ~Known(a, pre)

\* C1: whatever the interleaving of pushes and ticks, the entries ticks
\* have iterated followed by the entries still queued are exactly the
\* entries pushed, in order: nothing is lost, nothing is consumed twice.
NoCommandLostOrDuplicated ==
    Pairs(consumed) \o Pending = Pairs(enqueued)

\* C1 witness: the main thread is pushing while the tick thread, which has
\* consumed a command in an earlier tick, waits for the commands lock.
W_PushWhileTickWaits ==
    /\ tpc = "lock_commands"
    /\ commands_lock = "main"
    /\ Len(consumed) >= 1
    /\ Len(commands) >= 1

\* C2 (as claimed): a datagram that fails to decode never ends the process.
DecodeFailureIsNonFatal == exit # "panic"

\* C3 (as claimed): after a tick in which address a joined, its player is
\* at default state: zero position and zero velocity.
JoinLeavesDefaultState ==
    \A a \in Addr :
        Joined(a) =>
            /\ Cardinality(PlayersOf(a)) = 1
            /\ \A n \in PlayersOf(a) :
                   players[n].pos = Vec2_zero /\ players[n].vel = Vec2_zero

\* C3 (amended): after a tick in which address a joined there is exactly
\* one player for a; when the joining command was a's only command of the
\* batch, whatever its type, the player is at position (0, 0) with velocity
\* (0, GRAVITY): physics() of the same tick has run on the new player.
JoinCreatesOnePlayer ==
    \A a \in Addr :
        Joined(a) =>
            /\ Cardinality(PlayersOf(a)) = 1
            /\ Len(BatchOf(a)) = 1 =>
                   \A n \in PlayersOf(a) :
                       /\ players[n].pos = Vec2_zero
                       /\ players[n].vel = [x |-> FromInt(0), y |-> GRAVITY]

\* C3 witness: a tick in which a new address joined with a single Jump.
W_JoinByJump ==
    \E a \in Addr :
        /\ Joined(a)
        /\ BatchOf(a) = <<[addr |-> a, cmd |-> "Jump"]>>

\* pre[n] got no command in the current tick, which has run physics()
Untouched(n) == AfterPhysics /\ n \in 1..Len(pre) /\ BatchOf(pre[n].ip) = <<>>

AtBoundaryX(p) ==
    /\ p.pos.x \in {FromInt(0), FromInt(SCREEN_WIDTH - MARGIN)}
    /\ p.vel.x = FromInt(0)

AtBoundaryY(p) ==
    /\ p.pos.y \in {0, SCREEN_HEIGHT - MARGIN}
    /\ p.vel.y = 0

\* C4 (as claimed): a player at a boundary of an axis with zero velocity on
\* that axis keeps that position and that velocity component over a tick
\* that has no command for it.
ClampIdempotent ==
    \A n \in 1..Len(pre) :
        Untouched(n) =>
            /\ AtBoundaryX(pre[n]) =>
                   /\ players[n].pos.x = pre[n].pos.x
                   /\ players[n].vel.x = pre[n].vel.x
            /\ AtBoundaryY(pre[n]) =>
                   /\ players[n].pos.y = pre[n].pos.y
                   /\ players[n].vel.y = pre[n].vel.y

\* C4 (amended): over such a tick the position component is unchanged on
\* both axes; the horizontal velocity stays 0, the vertical velocity goes
\* from 0 to GRAVITY.
ClampKeepsPosition ==
    \A n \in 1..Len(pre) :
        Untouched(n) =>
            /\ AtBoundaryX(pre[n]) =>
                   /\ players[n].pos.x = pre[n].pos.x
                   /\ players[n].vel.x = pre[n].vel.x
            /\ AtBoundaryY(pre[n]) =>
                   /\ players[n].pos.y = pre[n].pos.y
                   /\ players[n].vel.y = GRAVITY

\* C4 witness: a tick without commands for a player that rested on the
\* upper boundary of x and the lower boundary of y.
W_UntouchedAtBoundary ==
    \E n \in 1..Len(pre) :
        /\ Untouched(n)
        /\ AtBoundaryX(pre[n]) /\ pre[n].pos.x = FromInt(SCREEN_WIDTH - MARGIN)
        /\ AtBoundaryY(pre[n]) /\ pre[n].pos.y = 0

\* C5: every player's position is inside the world: 0 <= x < SCREEN_WIDTH
\* and 0 <= y < SCREEN_HEIGHT.
PositionInBounds ==
    \A n \in 1..Len(players) :
        /\ ~RLtInt(players[n].pos.x, 0)
        /\ RLtInt(players[n].pos.x, SCREEN_WIDTH)
        /\ 0 <= players[n].pos.y
        /\ players[n].pos.y < SCREEN_HEIGHT

\* C5 witness: physics() has clamped a player that a Jump carried above
\* y = 0 and a Move_right carried past x = 290.
W_Clamped ==
    \E n \in 1..Len(pre) :
        /\ AfterPhysics
        /\ pre[n].pos = [x |-> FromInt(SCREEN_WIDTH - MARGIN), y |-> 0]
        /\ \E m \in 1..Len(commands) :
               commands[m] = [addr |-> pre[n].ip, cmd |-> "Jump"]
        /\ \E m \in 1..Len(commands) :
               commands[m] = [addr |-> pre[n].ip, cmd |-> "Move_right"]
        /\ players[n].pos = pre[n].pos

\* C6: during the send loop the attempts made so far went to the first
\* players of the vector, in order; when tick() returns there is exactly
\* one attempt per player, and every attempt carried the one snapshot
\* encoded in this tick.
BroadcastComplete ==
    /\ tpc = "send" => Len(sent) = j - 1
    /\ tpc = "drop_players" => Len(sent) = Len(players)
    /\ tpc \in {"send", "drop_players"} =>
           \A n \in 1..Len(sent) :
               /\ n <= Len(players)
               /\ sent[n].to = players[n].ip
               /\ sent[n].bytes = bytes
               /\ sent[n].bytes = encode_snapshot(players)

\* C6 witness: tick() returns with two known players, one of which joined
\* in this tick.
W_BroadcastToTwo ==
    /\ tpc = "drop_players"
    /\ Len(players) = 2
    /\ Len(pre) = 1
    /\ Len(sent) = 2

SomeSendFailed == \E n \in 1..Len(sent) : ~sent[n].ok

\* C7: a failed send_to stops nothing: the loop goes on to the next player,
\* and when tick() returns every player was attempted, the queue is empty
\* and the process runs unless the main thread ended it.
SendFailureIsolated ==
    SomeSendFailed =>
        /\ tpc = "send" => j = Len(sent) + 1
        /\ tpc = "drop_players" =>
               /\ Len(sent) = Len(players)
               /\ commands = <<>>
               /\ ~alive => ipc \in {"recv", "handle"}

\* C7 witness: the send to the first player failed, the send to the
\* second was made after it, and tick() returned.
W_SendAfterFailure ==
    /\ tpc = "drop_players"
    /\ alive
    /\ Len(sent) = 2
    /\ ~sent[1].ok
    /\ sent[2].ok

\* C8: no two players of the vector have the same address.
OnePlayerPerAddress ==
    \A m, n \in 1..Len(players) : players[m].ip = players[n].ip => m = n

\* C8 witness: one tick consumed two commands of the same unseen address.
W_TwoCommandsOnePlayer ==
    /\ Len(consumed) = 2
    /\ consumed[1].addr = consumed[2].addr
    /\ consumed[1].by = consumed[2].by
    /\ Len(players) = 1

\* C9 (as claimed): the main thread, with a datagram in hand, is never
\* kept from the queue by a tick that is applying commands, running
\* physics or broadcasting.
EnqueueNeverWaitsForTick ==
    (ipc = "lock" /\ tpc \in {"apply", "encode", "send"}) => commands_lock # "tick"

\* a command is consumed by the first tick that takes the commands lock
\* after the push
ConsumedByNextDrain ==
    \A n \in 1..Len(consumed) :
        n <= Len(enqueued) /\ consumed[n].by = enqueued[n].at + 1

\* C10 (as claimed): a command is consumed by the first tick that drains
\* after its push, and every pushed command is eventually consumed.
EveryCommandConsumed ==
    /\ []ConsumedByNextDrain
    /\ \A n \in 1..MaxCommands :
           (Len(enqueued) >= n) ~> (Len(consumed) >= n)

\* C10 (amended): a command is consumed by the first tick that drains after
\* its push, and every pushed command is eventually consumed unless the
\* process ends first.
EveryCommandConsumedOrExit ==
    /\ []ConsumedByNextDrain
    /\ \A n \in 1..MaxCommands :
           (Len(enqueued) >= n) ~> (Len(consumed) >= n \/ ~alive)

\* C10 witness: a command pushed after the first tick's drain has been
\* consumed by a later tick.
W_DeferredToNextTick ==
    \E n \in 1..Len(consumed) :
        /\ n <= Len(enqueued)
        /\ enqueued[n].at >= 1
        /\ consumed[n].by = enqueued[n].at + 1

\* the commands tick() has applied so far in the current tick
Applied == SubSeq(commands, 1, i - 1)

\* the command loop of the current tick has ended; physics() has not run
CommandsApplied == tpc = "apply" /\ i > Len(commands)

\* the number of commands c of address a among the applied ones
Count(a, c) ==
    Len(SelectSeq(Applied, LAMBDA e : e.addr = a /\ e.cmd = c))

\* C11: for a player that exists when the tick starts, after any prefix of
\* the command loop, and so at its end, the velocity is the start
\* velocity plus acc * (r - l) horizontally and minus jump_force * j
\* vertically, r, l, j counting its applied Move_right, Move_left and Jump
\* commands; other commands change nothing, and nothing else of the
\* player changes.
CommandsAccumulate ==
    tpc = "apply" =>
        \A n \in 1..Len(pre) :
            LET a == pre[n].ip
                r == Count(a, "Move_right")
                l == Count(a, "Move_left")
                jn == Count(a, "Jump")
            IN  /\ players[n].vel.x =
                       RAdd(pre[n].vel.x, FromInt(pre[n].acc * (r - l)))
                /\ players[n].vel.y = pre[n].vel.y - pre[n].jump_force * jn
                /\ players[n].pos = pre[n].pos
                /\ players[n].ip = a

\* C11 witness: the command loop ended after a Move_left and a Jump, in
\* that order, for a player that existed when the tick started.
W_TwoCommandsApplied ==
    /\ CommandsApplied
    /\ Len(pre) >= 1
    /\ commands = <<[addr |-> pre[1].ip, cmd |-> "Move_left"],
                    [addr |-> pre[1].ip, cmd |-> "Jump"]>>

\* a player at (0, 0) with velocity (0, 0) when the tick started got one
\* Jump and nothing else, and physics() is about to run on it
JumpFromRest(n) ==
    /\ CommandsApplied
    /\ n \in 1..Len(pre)
    /\ pre[n].pos = Vec2_zero
    /\ pre[n].vel = Vec2_zero
    /\ BatchOf(pre[n].ip) = <<[addr |-> pre[n].ip, cmd |-> "Jump"]>>

\* C12 (as claimed): the physics step gives vertical velocity -10 + 1 = -9
\* and vertical position 0 + (-9), and ends with pos.y = 0 and vel.y = 0.
JumpIntegratesNewVelocity ==
    \A n \in 1..Len(pre) :
        JumpFromRest(n) =>
            /\ integrate(players[n]).vel.y = -JUMP_FORCE + GRAVITY
            /\ integrate(players[n]).pos.y = 0 + (-JUMP_FORCE + GRAVITY)
            /\ physics_player(players[n]).pos.y = 0
            /\ physics_player(players[n]).vel.y = 0

\* C12 (amended): the physics step gives vertical position 0 + (-10), the
\* velocity before gravity is added, and vertical velocity -10 + 1 = -9,
\* and ends with pos.y = 0 and vel.y = 0.
JumpIntegratesOldVelocity ==
    \A n \in 1..Len(pre) :
        JumpFromRest(n) =>
            /\ players[n].vel.y = -JUMP_FORCE
            /\ integrate(players[n]).vel.y = -JUMP_FORCE + GRAVITY
            /\ integrate(players[n]).pos.y = 0 + (-JUMP_FORCE)
            /\ physics_player(players[n]).pos.y = 0
            /\ physics_player(players[n]).vel.y = 0

\* C12 witness: the tick of such a Jump has run physics() and the player is
\* at y = 0 with vel.y = 0.
W_JumpClamped ==
    /\ AfterPhysics
    /\ Len(pre) >= 1
    /\ pre[1].pos = Vec2_zero
    /\ pre[1].vel = Vec2_zero
    /\ commands = <<[addr |-> pre[1].ip, cmd |-> "Jump"]>>
    /\ players[1].pos.y = 0
    /\ players[1].vel.y = 0

\* C14 (as claimed): the only step that ends the process is a failed
\* receive; a datagram that fails to decode leaves the server running.
OnlyReceiveErrorEndsProcess ==
    [][(alive /\ ~alive') => (ipc = "recv" /\ exit' = "recv_error")]_vars

\* FRICTION to the power e
RECURSIVE FrictionPow(_)
FrictionPow(e) ==
    IF e = 0 THEN FromInt(1)
    ELSE RScale(FrictionPow(e - 1), FRICTION_NUM, FRICTION_DEN)

\* FRICTION + FRICTION^2 + ... + FRICTION^n
RECURSIVE frictionDecaySum(_)
frictionDecaySum(n) ==
    IF n = 0 THEN FromInt(0)
    ELSE RAdd(frictionDecaySum(n - 1), FrictionPow(n))

\* +1 for Move_right, -1 for Move_left, 0 for the rest
Direction(cmd) ==
    IF cmd = "Move_right" THEN 1 ELSE IF cmd = "Move_left" THEN -1 ELSE 0

\* right_count - left_count of address a over the first m consumed commands
RECURSIVE NetCount(_, _)
NetCount(a, m) ==
    IF m = 0 THEN 0
    ELSE NetCount(a, m - 1)
         + (IF consumed[m].addr = a THEN Direction(consumed[m].cmd) ELSE 0)

\* what the friction recurrence gives after N ticks from velocity 0: each
\* of the first m consumed commands of address a, applied in tick t,
\* contributes acc * (+1 or -1) * FRICTION^(N - t + 1)
RECURSIVE Analytic(_, _, _, _)
Analytic(a, acc, N, m) ==
    IF m = 0 THEN FromInt(0)
    ELSE LET e == consumed[m]
             rest == Analytic(a, acc, N, m - 1)
         IN  IF e.addr = a /\ Direction(e.cmd) # 0
             THEN RAdd(rest, RScale(FrictionPow(N - e.by + 1),
                                    acc * Direction(e.cmd), 1))
             ELSE rest

\* physics() has run in each of the `drains` ticks so far, and no x clamp
\* ever acted on the player of address a
AfterTicksNoHit(a) == tpc # "apply" /\ a \notin hit

\* C15 (as claimed): with no bound hit, the horizontal velocity of the
\* player (at rest before the first tick) after N ticks is
\* acc * (right_count - left_count) * frictionDecaySum, the counts taken
\* over the N ticks.
VelocityIsCountTimesDecaySum ==
    AfterTicksNoHit("a1") =>
        \A n \in PlayersOf("a1") :
            players[n].vel.x =
                RScale(frictionDecaySum(drains),
                       players[n].acc * NetCount("a1", Len(consumed)), 1)

\* C15 (amended): with no bound hit, the horizontal velocity after N ticks
\* is the sum, over the player's move commands, of
\* acc * (+1 or -1) * FRICTION^(number of physics steps since the command).
VelocityMatchesRecurrence ==
    AfterTicksNoHit("a1") =>
        \A n \in PlayersOf("a1") :
            players[n].vel.x =
                Analytic("a1", players[n].acc, drains, Len(consumed))

\* C15 witness: two ticks, a Move_right in each, no bound hit: the velocity
\* is 0.8 * (0.8 * 1 + 1) = 36/25.
W_MoveRightTwoTicks ==
    /\ AfterTicksNoHit("a1")
    /\ drains = 2
    /\ Pairs(consumed) = <<[addr |-> "a1", cmd |-> "Move_right"],
                           [addr |-> "a1", cmd |-> "Move_right"]>>
    /\ consumed[1].by = 1
    /\ consumed[2].by = 2
    /\ players[1].vel.x = Rat(36, 25)

\* the players after the first m commands of cs, applied in order to ps
RECURSIVE ApplyAll(_, _, _)
ApplyAll(ps, cs, m) ==
    IF m = 0 THEN ps
    ELSE apply_command(ApplyAll(ps, cs, m - 1), cs[m].addr, cs[m].cmd)

\* the commands consumed by the current tick
ConsumedNow ==
    Pairs(SelectSeq(consumed, LAMBDA e : e.by = drains))

\* inside tick() both locks are held; in the command loop the players are
\* the tick's start players with the iterated commands applied; after
\* physics() they are the physics step of the start players with the
\* whole batch applied, the batch is still in the queue, and the snapshot
\* built and every datagram sent in the tick encode exactly these players
PhasesInvariant ==
    /\ InTick => players_lock = "tick" /\ commands_lock = "tick"
    /\ tpc = "apply" =>
           /\ players = ApplyAll(pre, commands, i - 1)
           /\ ConsumedNow = Applied
           /\ sent = <<>>
           /\ bytes = <<>>
    /\ AfterPhysics =>
           /\ players = physics(ApplyAll(pre, commands, Len(commands)))
           /\ ConsumedNow = commands
    /\ tpc = "encode" => sent = <<>> /\ bytes = <<>>
    /\ tpc = "send" =>
           /\ bytes = encode_snapshot(players)
           /\ Len(sent) = j - 1
           /\ \A n \in 1..Len(sent) : sent[n].bytes = encode_snapshot(players)

\* the queue loses entries only in the step that ends the send loop, and
\* the players do not change from the encoding to the end of the tick
PhasesStep ==
    /\ (Len(commands') < Len(commands)) =>
           /\ tpc = "send"
           /\ j > Len(players)
           /\ Len(sent) = Len(players)
    /\ (tpc \in {"encode", "send", "drop_players"}) => players' = players

\* C16: each tick runs apply commands, physics, broadcast, clear queue in
\* this order with both locks held; the snapshot sent in a tick is the
\* encoding of the players after that tick's physics step with every
\* command of the batch applied; the players do not change between the
\* encoding and the last send; the queue is cleared only after the
\* broadcast.
TickPhasesInOrder == []PhasesInvariant /\ [][PhasesStep]_vars

\* C16 witness: the broadcast of a tick with a non-empty batch and two
\* players has ended, the queue has not been cleared yet.
W_BroadcastBeforeClear ==
    /\ tpc = "send"
    /\ j > Len(players)
    /\ Len(sent) = 2
    /\ commands # <<>>
    /\ players # pre

\* a step of the main thread
MainStep == <<ipc, k, exit>>' # <<ipc, k, exit>>

\* C17: a step of the ingestion thread leaves the players unchanged and at
\* most appends to the command queue; no step removes a player or changes
\* a player's address, so the set of known addresses only grows.
IngestionOnlyAppends ==
    [][/\ MainStep =>
              /\ players' = players
              /\ Len(commands') >= Len(commands)
              /\ SubSeq(commands', 1, Len(commands)) = commands
       /\ \A n \in 1..Len(players) :
              n <= Len(players') /\ players'[n].ip = players[n].ip]_vars

\* C17 witness: the main thread has pushed the first command of a datagram
\* while a player that has moved exists.
W_PushWithPlayers ==
    /\ ipc = "push"
    /\ k = 2
    /\ Len(commands) = 1
    /\ Len(players) >= 1
    /\ players[1] # Player_new(players[1].ip)

\* the time the tick thread sleeps before the next tick: the argument of
\* thread::sleep when it is called, 0 when it is not
SleepDuration == IF tpc = "sleep" THEN sleep_time[1] ELSE 0

\* C18: after a tick the thread sleeps for TICK_DURATION - elapsed when that
\* is positive; when elapsed >= TICK_DURATION it does not sleep and the
\* next tick starts at once; every iteration of the loop runs tick()
\* exactly once: none is skipped and none runs twice to catch up.
TickCadence ==
    /\ tpc = "sleep" =>
           /\ elapsed # None
           /\ sleep_time = Some(TICK_DURATION - elapsed[1])
    /\ elapsed # None =>
           /\ tpc \in {"sleep", "start"}
           /\ IF elapsed[1] < TICK_DURATION
              THEN tpc = "sleep" /\ SleepDuration = TICK_DURATION - elapsed[1]
              ELSE SleepDuration = 0
           /\ elapsed[1] > TICK_DURATION => tpc = "start" /\ sleep_time = None
    /\ ticks = drains + (IF tpc \in {"lock_players", "lock_commands"}
                         THEN 1 ELSE 0)

\* C18 witness: the first tick overran its period; the thread is at the top
\* of the loop again without having slept.
W_Overrun ==
    /\ tpc = "start"
    /\ elapsed = Some(TICK_DURATION + 1)
    /\ sleep_time = None
    /\ drains = 1
    /\ ticks = 1

\* a thread is waiting for a mutex another thread holds
TickBlocked ==
    \/ tpc = "lock_players" /\ players_lock # "none"
    \/ tpc = "lock_commands" /\ commands_lock # "none"

MainBlocked == ipc = "lock" /\ commands_lock # "none"

\* C19: the tick thread takes the players lock, then the commands lock; the
\* main thread takes only the commands lock; the two threads are never
\* both waiting, a waiting thread's lock is held by the other thread and
\* that thread can take a step (at CommandsApplied that step is physics(),
\* whose guard is CommandsApplied itself), and a thread waiting for a free
\* lock can take it.
NoDeadlock ==
    alive =>
        /\ players_lock \in {"none", "tick"}
        /\ tpc = "lock_commands" => players_lock = "tick"
        /\ commands_lock = "main" => ipc \in {"handle", "push", "drop"}
        /\ ~(TickBlocked /\ MainBlocked)
        /\ TickBlocked => commands_lock = "main" /\ ENABLED MainThread
        /\ MainBlocked =>
               /\ commands_lock = "tick"
               /\ CommandsApplied \/ ENABLED TickThread
        /\ (tpc = "lock_players" /\ players_lock = "none")
               => ENABLED TickLockPlayers
        /\ (tpc = "lock_commands" /\ commands_lock = "none")
               => ENABLED TickLockCommands
        /\ (ipc = "lock" /\ commands_lock = "none")
               => ENABLED MainLockCommands

\* C19 witness: the main thread waits for the commands lock while the tick
\* thread, holding both locks, is in its send loop.
W_MainWaitsForTick ==
    /\ alive
    /\ MainBlocked
    /\ tpc = "send"
    /\ players_lock = "tick"
    /\ commands_lock = "tick"

\* the commands of address a the current tick has applied so far
AppliedOf(a) == SelectSeq(Applied, LAMBDA e : e.addr = a)

\* player p after the commands cs[from..m], dispatched in order
RECURSIVE DispatchAll(_, _, _, _)
DispatchAll(p, cs, from, m) ==
    IF m < from THEN p
    ELSE dispatch(DispatchAll(p, cs, from, m - 1), cs[m].cmd)

\* C20: when the commands a tick has applied include n >= 1 commands of an
\* address that had no player when the tick started, the first of them
\* created the player and moved nothing, and the other n - 1 were applied
\* to that player in arrival order: there is one player of the address
\* and it is Player::new with the commands 2..n dispatched on it.
JoinThenApplyRest ==
    tpc = "apply" =>
        \A a \in Addr :
            (~Known(a, pre) /\ AppliedOf(a) # <<>>) =>
                /\ Cardinality(PlayersOf(a)) = 1
                /\ \A n \in PlayersOf(a) :
                       players[n] = DispatchAll(Player_new(a), AppliedOf(a),
                                                2, Len(AppliedOf(a)))

\* C20 witness: a Move_right and a Jump of the unseen address a1 have been
\* applied in one tick: the player has the Jump's velocity only.
W_JoinThenJump ==
    /\ CommandsApplied
    /\ pre = <<>>
    /\ commands = <<[addr |-> "a1", cmd |-> "Move_right"],
                    [addr |-> "a1", cmd |-> "Jump"]>>
    /\ players = <<[Player_new("a1") EXCEPT !.vel.y = -JUMP_FORCE]>>

====
